---- MODULE Spec2Model ----
(***************************************************************************)
(* Model of baseapp/abci_utils.go: the default ABCI PrepareProposal and    *)
(* ProcessProposal handlers (DefaultProposalHandler) and the default       *)
(* transaction selector (defaultTxSelector).                               *)
(*                                                                         *)
(* uint64 values are kept modulo a small word: declared gas modulo GasMod  *)
(* and signer sequences modulo SeqMod, so that the wrap-around of          *)
(* txGasLimit + totalTxGas, totalTxGas += gas, seq + 1 and seq - 1 is      *)
(* part of the model.  Byte totals are plain naturals: a byte length is a  *)
(* non-negative int and req.MaxTxBytes is taken non-negative, so           *)
(* txSize + totalTxBytes stays below 2^64 and never wraps.                 *)
(***************************************************************************)
EXTENDS Integers, Sequences, FiniteSets

\* ------------------------------------------------------------------ bounds
\* most candidates one build cycle examines (mempool size / len(req.Txs))
MaxTxs == 3
\* longest encoded transaction, in bytes
MaxSize == 2
\* modulus standing for 2^64 in gas arithmetic
GasMod == 8
\* modulus standing for 2^64 in sequence arithmetic
SeqMod == 4
\* longest req.Txs of a ProcessProposal request that is not a replayed Response
MaxProcTxs == 2

\* largest req.MaxTxBytes a request carries
MaxBytes == MaxSize
\* largest positive int64 of the gas word (Block.MaxGas is an int64)
MaxInt == (GasMod \div 2) - 1

Signers == {"A", "B"}
\* the PrepareProposal invocations of one handler; Spec runs them one at a time
Invs == {1, 2}

\* gas of a transaction that does not implement GasTx
NoGas == -1
\* a signer with no entry in a map[string]uint64
NoSeq == -1

Gases == 0 .. (GasMod - 1)
Seqs == 0 .. (SeqMod - 1)

\* uint64(x) of an int64 x
ToUint64(x) == x % GasMod

\* ------------------------------------------------------------ transactions
Sig(s, q) == [signer |-> s, seq |-> q]

\* the results of GetSignaturesV2 the model enumerates: no signature, one
\* signature of A or of B, or signatures of A and B
SigLists ==
    {<<>>}
    \cup {<<Sig(s, q)>> : s \in Signers, q \in Seqs}
    \cup {<<Sig("A", q), Sig("B", r)>> : q \in Seqs, r \in Seqs}

\* an sdk.Tx of the mempool: the length of its canonical encoding, its gas
\* limit (NoGas when it is no GasTx), its signatures, and whether the
\* verifier (runTx, AnteHandler) accepts it
MkTx(l, g, sg, v) == [enclen |-> l, gas |-> g, sigs |-> sg, ok |-> v]

\* candidates that differ in size
SizeTxs ==
    {MkTx(l, g, <<>>, v) : l \in 0 .. MaxSize, g \in {NoGas, MaxInt - 1}, v \in BOOLEAN}
\* candidates that differ in declared gas
GasTxs == {MkTx(1, g, <<>>, v) : g \in {NoGas} \cup Gases, v \in BOOLEAN}
\* candidates that differ in signers and sequences
SeqTxs ==
    {MkTx(l, NoGas, sg, TRUE) : l \in {1, MaxSize}, sg \in SigLists \ {<<>>}}
    \cup {MkTx(1, NoGas, <<Sig(s, q)>>, FALSE) : s \in Signers, q \in Seqs}

\* the canonical bytes of a transaction (the tx encoder)
TxEncode(tx) == [len |-> tx.enclen, body |-> [gas |-> tx.gas, sigs |-> tx.sigs, ok |-> tx.ok]]
\* the transaction a byte string decodes to (the tx decoder)
TxDecode(bz) == MkTx(bz.len, bz.body.gas, bz.body.sigs, bz.body.ok)

\* ProposalTxVerifier.PrepareProposalVerifyTx(tx) ([]byte, error)
PrepareProposalVerifyTx(tx) ==
    IF tx.ok THEN [err |-> FALSE, txBz |-> <<TxEncode(tx)>>]
    ELSE [err |-> TRUE, txBz |-> <<>>]

\* ProposalTxVerifier.ProcessProposalVerifyTx(txBz) (sdk.Tx, error)
ProcessProposalVerifyTx(txBz) ==
    LET tx == TxDecode(txBz) IN
    IF tx.ok THEN [err |-> FALSE, tx |-> <<tx>>]
    ELSE [err |-> TRUE, tx |-> <<>>]

\* ---------------------------------------------------------------- selector
\* NewDefaultTxSelector: &defaultTxSelector{}
NewDefaultTxSelector == [totalTxBytes |-> 0, totalTxGas |-> 0, selectedTxs |-> <<>>]

\* defaultTxSelector.SelectedTxs: a copy of the selected transactions
SelectedTxs(ts) == [k \in 1 .. Len(ts.selectedTxs) |-> ts.selectedTxs[k]]

\* a Clear that zeroes the totals and forgets the list
ClearKeepsTxs(ts) == [ts EXCEPT !.totalTxBytes = 0, !.totalTxGas = 0]

\* defaultTxSelector.Clear
Clear(ts) == [totalTxBytes |-> 0, totalTxGas |-> 0, selectedTxs |-> <<>>]

\* txGasLimit of SelectTxForProposal: memTx is {} for nil, {tx} otherwise
TxGasLimit(memTx) ==
    IF memTx = {} THEN 0
    ELSE LET tx == CHOOSE t \in memTx : TRUE IN
         IF tx.gas = NoGas THEN 0 ELSE tx.gas

\* a selector that compares the size alone with the budget
HasByteCapacityForgetsTotal(ts, maxTxBytes, txSize) == txSize <= maxTxBytes

\* line 301: the transaction fits the byte budget
HasByteCapacity(ts, maxTxBytes, txSize) == (txSize + ts.totalTxBytes) <= maxTxBytes

\* a selector that lets every transaction pass the gas budget
HasGasCapacityAlways(ts, maxBlockGas, txGasLimit) == TRUE

\* line 305: the transaction fits the gas budget (uint64 addition)
HasGasCapacity(ts, maxBlockGas, txGasLimit) ==
    ((txGasLimit + ts.totalTxGas) % GasMod) <= maxBlockGas

\* a capacity test that looks at the bytes alone
ReachedCapacityBytesOnly(ts, maxTxBytes, maxBlockGas) == ts.totalTxBytes >= maxTxBytes

\* line 317: capacity reached, the caller should halt
ReachedCapacity(ts, maxTxBytes, maxBlockGas) ==
    \/ ts.totalTxBytes >= maxTxBytes
    \/ (maxBlockGas > 0 /\ ts.totalTxGas >= maxBlockGas)

\* defaultTxSelector.SelectTxForProposal: the selector after the call, and
\* the value returned (stop)
SelectTxForProposal(ts, maxTxBytes, maxBlockGas, memTx, txBz) ==
    LET txSize == txBz.len
        txGasLimit == TxGasLimit(memTx)
        after ==
            IF HasByteCapacity(ts, maxTxBytes, txSize)
            THEN IF maxBlockGas > 0
                 THEN IF HasGasCapacity(ts, maxBlockGas, txGasLimit)
                      THEN [totalTxBytes |-> ts.totalTxBytes + txSize,
                            totalTxGas |-> (ts.totalTxGas + txGasLimit) % GasMod,
                            selectedTxs |-> Append(ts.selectedTxs, txBz)]
                      ELSE ts
                 ELSE [totalTxBytes |-> ts.totalTxBytes + txSize,
                       totalTxGas |-> ts.totalTxGas,
                       selectedTxs |-> Append(ts.selectedTxs, txBz)]
            ELSE ts
    IN [ts |-> after, stop |-> ReachedCapacity(after, maxTxBytes, maxBlockGas)]

\* ------------------------------------------------------ selector memory
\* The slices behind the lists.  buf is the backing array of ts.selectedTxs
\* (the cells written so far) and tsLen the length of that slice.  A caller
\* may hold the list SelectedTxs returned last (has): a slice of length
\* heldLen, of the array buf when shared and of its own array hbuf otherwise;
\* heldVal is the list as the holder knows it (as returned, then as the
\* holder itself changed it).
NoMem ==
    [buf |-> <<>>, tsLen |-> 0, has |-> FALSE, shared |-> FALSE, hbuf |-> <<>>,
     heldLen |-> 0, heldVal |-> <<>>]

\* ts.selectedTxs and the held list, read through their slices
ViewTs(m) == SubSeq(m.buf, 1, m.tsLen)
ViewHeld(m) == SubSeq(IF m.shared THEN m.buf ELSE m.hbuf, 1, m.heldLen)

\* the selector lets go of the array buf: a holder sharing it keeps it
Detach(m) ==
    IF m.shared THEN [m EXCEPT !.hbuf = m.buf, !.shared = FALSE] ELSE m

\* ts.selectedTxs = append(ts.selectedTxs, txBz): in place when the array has
\* room (always so when cells past the slice were written already), else in
\* a new array; the capacity is the runtime's choice (inPlace)
AppendSelected(m, txBz, inPlace) ==
    IF m.tsLen < Len(m.buf)
    THEN [m EXCEPT !.buf[m.tsLen + 1] = txBz, !.tsLen = @ + 1]
    ELSE IF inPlace
    THEN [m EXCEPT !.buf = Append(@, txBz), !.tsLen = @ + 1]
    ELSE [Detach(m) EXCEPT !.buf = Append(ViewTs(m), txBz), !.tsLen = @ + 1]

\* the memory after a SelectTxForProposal that took the selector from
\* before to after
SelectMem(m, before, after, inPlace) ==
    IF Len(after.selectedTxs) > Len(before.selectedTxs)
    THEN AppendSelected(m, after.selectedTxs[Len(after.selectedTxs)], inPlace)
    ELSE m

\* Clear: ts.selectedTxs = nil
ClearMem(m) == [Detach(m) EXCEPT !.buf = <<>>, !.tsLen = 0]

\* a SelectedTxs that returns ts.selectedTxs itself
SelectedTxsReturnsLive(m) ==
    [m EXCEPT !.has = TRUE, !.shared = TRUE, !.hbuf = <<>>,
              !.heldLen = m.tsLen, !.heldVal = ViewTs(m)]

\* SelectedTxs: make a new array of len(ts.selectedTxs) cells, copy into it
SelectedTxsMem(m) ==
    [m EXCEPT !.has = TRUE, !.shared = FALSE, !.hbuf = ViewTs(m),
              !.heldLen = m.tsLen, !.heldVal = ViewTs(m)]

\* the holder lets go of the list
DropHeld(m) ==
    [m EXCEPT !.has = FALSE, !.shared = FALSE, !.hbuf = <<>>, !.heldLen = 0,
              !.heldVal = <<>>]

\* the holder assigns held[k] = txBz
HeldSet(m, k, txBz) ==
    IF m.shared
    THEN [m EXCEPT !.buf[k] = txBz, !.heldVal[k] = txBz]
    ELSE [m EXCEPT !.hbuf[k] = txBz, !.heldVal[k] = txBz]

\* the holder assigns held = append(held, txBz)
HeldAppend(m, txBz, inPlace) ==
    IF ~m.shared
    THEN [m EXCEPT !.hbuf = Append(@, txBz), !.heldLen = @ + 1,
                   !.heldVal = Append(@, txBz)]
    ELSE IF m.heldLen < Len(m.buf)
    THEN [m EXCEPT !.buf[m.heldLen + 1] = txBz, !.heldLen = @ + 1,
                   !.heldVal = Append(@, txBz)]
    ELSE IF inPlace
    THEN [m EXCEPT !.buf = Append(@, txBz), !.heldLen = @ + 1,
                   !.heldVal = Append(@, txBz)]
    ELSE [m EXCEPT !.shared = FALSE, !.hbuf = Append(ViewHeld(m), txBz),
                   !.heldLen = @ + 1, !.heldVal = Append(@, txBz)]


\* ----------------------------------------------------------------- state
VARIABLES
    mempool,     \* h.mempool: "nil", "noop" (mempool.NoOpMempool) or "real"
    block,       \* ctx.ConsensusParams().Block: nil, or its MaxGas (int64)
    txSelector,  \* h.txSelector: the defaultTxSelector all invocations share
    inv,         \* per PrepareProposal invocation: position and local variables
    obs,         \* per invocation: what the cycle did so far (history)
    proc,        \* the ProcessProposal invocation: position and local variables
    mem,         \* the arrays behind h.txSelector's list and the list last returned
    call         \* the last call made on the selector directly (history)

vars == <<mempool, block, txSelector, inv, obs, proc, mem, call>>

MempoolKinds == {"nil", "noop", "real"}

\* Block.MaxGas is validated to be >= -1; -1 means no limit
BlockParams ==
    {[nil |-> TRUE, MaxGas |-> 0]} \cup {[nil |-> FALSE, MaxGas |-> g] : g \in -1 .. MaxInt}

\* make(map[string]uint64)
EmptySeqs == [s \in Signers |-> NoSeq]

\* an invocation that is not running
IdleInv ==
    [pc |-> "idle", maxTxBytes |-> 0, maxBlockGas |-> 0, idx |-> 0,
     selectedTxsSignersSeqs |-> EmptySeqs, selectedTxsNums |-> 0, response |-> <<>>]

\* nothing observed yet
NoObs ==
    [filterCalls |-> 0, verifyCalls |-> 0, removeCalls |-> 0, selectCalls |-> 0,
     halted |-> FALSE, atHalt |-> <<>>, selIdx |-> <<>>, admitted |-> <<>>,
     fitRejected |-> FALSE, after |-> "idle", startedWith |-> NewDefaultTxSelector,
     removeErr |-> FALSE, rejected |-> EmptySeqs]

\* no direct call yet
NoCall ==
    [n |-> 0, maxTxBytes |-> 0, maxBlockGas |-> 0, memTx |-> {}, txBz |-> <<>>,
     before |-> NewDefaultTxSelector, stop |-> FALSE]

IdleProc ==
    [pc |-> "idle", txs |-> <<>>, idx |-> 0, totalTxGas |-> 0, status |-> "NONE",
     verifyCalls |-> 0, replay |-> FALSE]

\* NewDefaultProposalHandler(mp, txVerifier) under some consensus parameters
Init ==
    /\ mempool \in MempoolKinds
    /\ block \in BlockParams
    /\ txSelector = NewDefaultTxSelector
    /\ inv = [i \in Invs |-> IdleInv]
    /\ obs = [i \in Invs |-> NoObs]
    /\ proc = IdleProc
    /\ mem = NoMem
    /\ call = NoCall

\* h.mempool == nil || isNoOp
IsNoOp == mempool \in {"nil", "noop"}

\* maxBlockGas of PrepareProposalHandler: 0 without Block, else uint64(b.MaxGas)
PrepareMaxBlockGas == IF block.nil THEN 0 ELSE ToUint64(block.MaxGas)

\* maxBlockGas of ProcessProposalHandler: 0 without Block, else b.MaxGas (int64)
ProcessMaxBlockGas == IF block.nil THEN 0 ELSE block.MaxGas

\* whether the source yields a candidate after `taken` of them: the iterator
\* (or the rest of req.Txs) is external, so both answers are possible up to
\* MaxTxs candidates
MoreChoices(taken) == IF taken < MaxTxs THEN BOOLEAN ELSE {FALSE}

\* ------------------------------------------------------- sequence tracking
\* the loop over sigs: shouldAdd and txSignersSeqs
RECURSIVE SeqFilterFrom(_, _, _, _)
SeqFilterFrom(sigs, k, seen, acc) ==
    IF k > Len(sigs) THEN [shouldAdd |-> TRUE, txSignersSeqs |-> acc]
    ELSE LET sig == sigs[k] IN
         IF seen[sig.signer] = NoSeq
         THEN SeqFilterFrom(sigs, k + 1, seen, [acc EXCEPT ![sig.signer] = sig.seq])
         ELSE IF (seen[sig.signer] + 1) % SeqMod # sig.seq
              THEN [shouldAdd |-> FALSE, txSignersSeqs |-> acc]
              ELSE SeqFilterFrom(sigs, k + 1, seen, [acc EXCEPT ![sig.signer] = sig.seq])

\* a filter that never compares sequences
SeqFilterAcceptsAll(sigs, seen) ==
    [shouldAdd |-> TRUE,
     txSignersSeqs |->
        [s \in Signers |->
            IF \E k \in 1 .. Len(sigs) : sigs[k].signer = s
            THEN sigs[CHOOSE k \in 1 .. Len(sigs) : sigs[k].signer = s].seq
            ELSE NoSeq]]

SeqFilter(sigs, seen) == SeqFilterFrom(sigs, 1, seen, EmptySeqs)

\* a bookkeeping that records the sequences of admitted transactions alone
UpdateSeqsAdmittedOnly(seen, txSignersSeqs, txsLen, selectedTxsNums) ==
    [s \in Signers |->
        IF txSignersSeqs[s] # NoSeq /\ txsLen # selectedTxsNums THEN txSignersSeqs[s]
        ELSE seen[s]]

\* the loop over txSignersSeqs after a selector call that did not halt
UpdateSeqs(seen, txSignersSeqs, txsLen, selectedTxsNums) ==
    [s \in Signers |->
        IF txSignersSeqs[s] = NoSeq THEN seen[s]
        ELSE IF txsLen # selectedTxsNums THEN txSignersSeqs[s]
        ELSE IF seen[s] = NoSeq THEN (txSignersSeqs[s] - 1) % SeqMod
        ELSE seen[s]]

\* ------------------------------------------------------ PrepareProposal
\* what a selector call at candidate number k adds to the cycle's history
ObserveSelect(O, before, r, maxTxBytes, txBz, k) ==
    LET added == Len(r.ts.selectedTxs) > Len(before.selectedTxs) IN
    [O EXCEPT
        !.selectCalls = @ + 1,
        !.selIdx = IF added THEN Append(@, k) ELSE @,
        !.admitted = IF added THEN Append(@, txBz) ELSE @,
        !.fitRejected = @ \/ (before.totalTxBytes + txBz.len <= maxTxBytes /\ ~added),
        !.rejected =
            [s \in Signers |->
                LET mine == {j \in 1 .. Len(txBz.body.sigs) : txBz.body.sigs[j].signer = s} IN
                IF added \/ mine = {} \/ @[s] # NoSeq THEN @[s]
                ELSE txBz.body.sigs[CHOOSE j \in mine : TRUE].seq],
        !.halted = r.stop,
        !.atHalt = IF r.stop THEN r.ts.selectedTxs ELSE @]

\* a handler that ignores what Remove returns
RemoveNeverPanics(rmErr) == FALSE

\* lines 141-144: mempool.Remove(memTx) returned rmErr; a panic unless it is
\* nil or ErrTxNotFound
RemovePanics(rmErr) == rmErr # "nil" /\ rmErr # "ErrTxNotFound"

RemoveResults == {"nil", "ErrTxNotFound", "other"}

\* a loop body that hands the encoding of every candidate that passed the
\* sequence filter to the selector, without the verifier
LoopBodySkipsVerify(ts, L, O, memTx, sigErr, rmErr) ==
    IF sigErr THEN [exit |-> "panic", ts |-> ts, L |-> L, O |-> O]
    ELSE
    LET f == SeqFilter(memTx.sigs, L.selectedTxsSignersSeqs)
        O1 == [O EXCEPT !.filterCalls = @ + 1]
    IN
    IF ~f.shouldAdd THEN [exit |-> "next", ts |-> ts, L |-> L, O |-> O1]
    ELSE
    LET txBz == TxEncode(memTx)
        r == SelectTxForProposal(ts, L.maxTxBytes, L.maxBlockGas, {memTx}, txBz)
        O3 == ObserveSelect([O1 EXCEPT !.verifyCalls = @ + 1], ts, r, L.maxTxBytes,
                            txBz, L.idx + 1)
        txsLen == Len(SelectedTxs(r.ts))
    IN
    IF r.stop THEN [exit |-> "break", ts |-> r.ts, L |-> L, O |-> O3]
    ELSE [exit |-> "next", ts |-> r.ts,
          L |-> [L EXCEPT
                   !.selectedTxsSignersSeqs =
                       UpdateSeqs(@, f.txSignersSeqs, txsLen, L.selectedTxsNums),
                   !.selectedTxsNums = txsLen],
          O |-> O3]

\* lines 103-169: one iteration of the loop over the mempool iterator, for
\* the candidate memTx, when GetSignaturesV2 fails or not (sigErr) and Remove
\* returns rmErr.  exit is "panic", "break" or "next" (iterator.Next())
LoopBody(ts, L, O, memTx, sigErr, rmErr) ==
    IF sigErr THEN [exit |-> "panic", ts |-> ts, L |-> L, O |-> O]
    ELSE
    LET f == SeqFilter(memTx.sigs, L.selectedTxsSignersSeqs)
        O1 == [O EXCEPT !.filterCalls = @ + 1]
    IN
    IF ~f.shouldAdd THEN [exit |-> "next", ts |-> ts, L |-> L, O |-> O1]
    ELSE
    LET v == PrepareProposalVerifyTx(memTx)
        O2 == [O1 EXCEPT !.verifyCalls = @ + 1]
    IN
    IF v.err
    THEN [exit |-> IF RemovePanics(rmErr) THEN "panic" ELSE "next",
          ts |-> ts, L |-> L,
          O |-> [O2 EXCEPT !.removeCalls = @ + 1,
                           !.removeErr = rmErr \notin {"nil", "ErrTxNotFound"}]]
    ELSE
    LET txBz == v.txBz[1]
        r == SelectTxForProposal(ts, L.maxTxBytes, L.maxBlockGas, {memTx}, txBz)
        O3 == ObserveSelect(O2, ts, r, L.maxTxBytes, txBz, L.idx + 1)
        txsLen == Len(SelectedTxs(r.ts))
    IN
    IF r.stop THEN [exit |-> "break", ts |-> r.ts, L |-> L, O |-> O3]
    ELSE [exit |-> "next", ts |-> r.ts,
          L |-> [L EXCEPT
                   !.selectedTxsSignersSeqs =
                       UpdateSeqs(@, f.txSignersSeqs, txsLen, L.selectedTxsNums),
                   !.selectedTxsNums = txsLen],
          O |-> O3]

\* a no-op path that decodes txBz and hands the transaction to the selector
NoOpBodyDecodes(ts, L, O, txBz) ==
    LET r == SelectTxForProposal(ts, L.maxTxBytes, L.maxBlockGas, {TxDecode(txBz)}, txBz) IN
    [exit |-> IF r.stop THEN "break" ELSE "next", ts |-> r.ts, L |-> L,
     O |-> ObserveSelect(O, ts, r, L.maxTxBytes, txBz, L.idx + 1)]

\* lines 86-94: one iteration of the loop over req.Txs on the no-op path
NoOpBody(ts, L, O, txBz) ==
    LET r == SelectTxForProposal(ts, L.maxTxBytes, L.maxBlockGas, {}, txBz) IN
    [exit |-> IF r.stop THEN "break" ELSE "next", ts |-> r.ts, L |-> L,
     O |-> ObserveSelect(O, ts, r, L.maxTxBytes, txBz, L.idx + 1)]

\* a loop that goes on after the selector said stop
AfterIterationIgnoresStop(exit, more, loop) ==
    IF exit = "panic" THEN "panic"
    ELSE IF more THEN loop ELSE "return"

\* where the invocation goes after an iteration: a panic unwinds, a break or
\* an exhausted source leaves the loop for the return statement
AfterIteration(exit, more, loop) ==
    IF exit = "panic" THEN "panic"
    ELSE IF exit = "break" THEN "return"
    ELSE IF more THEN loop ELSE "return"

\* lines 72-85, 99-102: a call (the first, or one after the caller took the
\* Response or recovered the panic of the call before) enters the handler,
\* reads the consensus parameters, defers Clear and reaches the first loop test
Begin(i) ==
    /\ inv[i].pc \in {"idle", "done", "panicked"}
    /\ proc.pc = "idle"
    /\ \E maxTxBytes \in 0 .. MaxBytes, more \in MoreChoices(0) :
        inv' = [inv EXCEPT ![i] =
                  [IdleInv EXCEPT
                     !.pc = AfterIteration("next", more, IF IsNoOp THEN "noop" ELSE "loop"),
                     !.maxTxBytes = maxTxBytes,
                     !.maxBlockGas = PrepareMaxBlockGas]]
    /\ obs' = [obs EXCEPT ![i] = [NoObs EXCEPT !.after = inv[i].pc,
                                                !.startedWith = txSelector]]
    /\ mem' = DropHeld(mem)
    /\ UNCHANGED <<mempool, block, txSelector, proc, call>>

\* a loop that never moves its iterator
IterateWithoutNext(i, b, loop) ==
    \E inPlace \in BOOLEAN :
        /\ txSelector' = b.ts
        /\ mem' = SelectMem(mem, txSelector, b.ts, inPlace)
        /\ inv' = [inv EXCEPT ![i] = [b.L EXCEPT !.pc = AfterIteration(b.exit, TRUE, loop)]]
        /\ obs' = [obs EXCEPT ![i] = b.O]
        /\ UNCHANGED <<mempool, block, proc, call>>

\* apply the outcome b of one loop iteration of invocation i
Iterate(i, b, loop) ==
    \E more \in MoreChoices(inv[i].idx + 1), inPlace \in BOOLEAN :
        /\ txSelector' = b.ts
        /\ mem' = SelectMem(mem, txSelector, b.ts, inPlace)
        /\ inv' = [inv EXCEPT ![i] =
                     [b.L EXCEPT
                        !.pc = AfterIteration(b.exit, more, loop),
                        !.idx = IF b.exit = "next" THEN @ + 1 ELSE @]]
        /\ obs' = [obs EXCEPT ![i] = b.O]
        /\ UNCHANGED <<mempool, block, proc, call>>

NoOpStep(i, txBz) ==
    /\ inv[i].pc = "noop"
    /\ Iterate(i, NoOpBody(txSelector, inv[i], obs[i], txBz), "noop")

MempoolStep(i, memTx, sigErr, rmErr) ==
    /\ inv[i].pc = "loop"
    /\ Iterate(i, LoopBody(txSelector, inv[i], obs[i], memTx, sigErr, rmErr), "loop")

\* lines 96, 172: the return statement evaluates h.txSelector.SelectedTxs()
Return(i) ==
    /\ inv[i].pc = "return"
    /\ inv' = [inv EXCEPT ![i].response = SelectedTxs(txSelector), ![i].pc = "defer"]
    /\ mem' = SelectedTxsMem(mem)
    /\ UNCHANGED <<mempool, block, txSelector, obs, proc, call>>

\* line 78: the deferred h.txSelector.Clear(), on return and on panic
DeferredClear(i) ==
    /\ inv[i].pc \in {"defer", "panic"}
    /\ txSelector' = Clear(txSelector)
    /\ inv' = [inv EXCEPT ![i].pc = IF @ = "defer" THEN "done" ELSE "panicked"]
    /\ mem' = ClearMem(mem)
    /\ UNCHANGED <<mempool, block, obs, proc, call>>

\* ------------------------------------------------------ ProcessProposal
\* a loop body that decodes txBytes and ignores the verifier's error
ProcessTxIgnoresError(totalTxGas, maxBlockGas, txBytes) ==
    LET tx == TxDecode(txBytes) IN
    IF maxBlockGas > 0
    THEN LET total == IF tx.gas # NoGas THEN (totalTxGas + tx.gas) % GasMod
                      ELSE totalTxGas
         IN [reject |-> total > ToUint64(maxBlockGas), totalTxGas |-> total]
    ELSE [reject |-> FALSE, totalTxGas |-> totalTxGas]

\* lines 204-227: the loop body for txBytes: the verifier, then the gas check
ProcessTx(totalTxGas, maxBlockGas, txBytes) ==
    LET v == ProcessProposalVerifyTx(txBytes) IN
    IF v.err THEN [reject |-> TRUE, totalTxGas |-> totalTxGas]
    ELSE IF maxBlockGas > 0
    THEN LET tx == v.tx[1]
             total == IF tx.gas # NoGas THEN (totalTxGas + tx.gas) % GasMod
                      ELSE totalTxGas
         IN [reject |-> total > ToUint64(maxBlockGas), totalTxGas |-> total]
    ELSE [reject |-> FALSE, totalTxGas |-> totalTxGas]

\* a handler that tests the mempool for nil alone
ReturnsNoOpProcessProposalNilOnly == mempool = "nil"

\* lines 190-193: ProcessProposalHandler returns NoOpProcessProposal()
ReturnsNoOpProcessProposal == IsNoOp

\* the handler is called with req.Txs = txs
ProcessCall(txs, replay) ==
    proc' = IF ReturnsNoOpProcessProposal
            THEN [IdleProc EXCEPT !.pc = "done", !.txs = txs, !.status = "ACCEPT",
                                  !.replay = replay]
            ELSE [IdleProc EXCEPT !.pc = "loop", !.txs = txs, !.replay = replay]

\* a ProcessProposal request with any transactions
ProcessBegin(txs) ==
    /\ proc.pc = "idle"
    /\ \A i \in Invs : inv[i].pc = "idle"
    /\ ProcessCall(txs, FALSE)
    /\ UNCHANGED <<mempool, block, txSelector, inv, obs, mem, call>>

\* a ProcessProposal request with the Response invocation i has built
ProcessReplay(i) ==
    /\ proc.pc = "idle"
    /\ inv[i].pc = "done"
    /\ ProcessCall(inv[i].response, TRUE)
    /\ UNCHANGED <<mempool, block, txSelector, inv, obs, mem, call>>

\* lines 203-230: one iteration of the loop over req.Txs, or the return of
\* ACCEPT after the last one
ProcessStep ==
    /\ proc.pc = "loop"
    /\ IF proc.idx = Len(proc.txs)
       THEN proc' = [proc EXCEPT !.pc = "done", !.status = "ACCEPT"]
       ELSE LET r == ProcessTx(proc.totalTxGas, ProcessMaxBlockGas, proc.txs[proc.idx + 1]) IN
            proc' = [proc EXCEPT
                       !.verifyCalls = @ + 1,
                       !.totalTxGas = r.totalTxGas,
                       !.idx = IF r.reject THEN @ ELSE @ + 1,
                       !.pc = IF r.reject THEN "done" ELSE @,
                       !.status = IF r.reject THEN "REJECT" ELSE @]
    /\ UNCHANGED <<mempool, block, txSelector, inv, obs, mem, call>>

\* the caller has taken the status
ProcessFinish ==
    /\ proc.pc = "done"
    /\ proc' = IdleProc
    /\ UNCHANGED <<mempool, block, txSelector, inv, obs, mem, call>>

\* ------------------------------------------------- the selector by itself
\* a caller of the TxSelector interface calls SelectTxForProposal
SelectCall(maxTxBytes, maxBlockGas, memTx, txBz) ==
    /\ \A i \in Invs : inv[i].pc = "idle"
    /\ proc.pc = "idle"
    /\ call.n < MaxTxs
    /\ LET r == SelectTxForProposal(txSelector, maxTxBytes, maxBlockGas, memTx, txBz) IN
        /\ txSelector' = r.ts
        /\ \E inPlace \in BOOLEAN : mem' = SelectMem(mem, txSelector, r.ts, inPlace)
        /\ call' = [n |-> call.n + 1, maxTxBytes |-> maxTxBytes,
                    maxBlockGas |-> maxBlockGas, memTx |-> memTx, txBz |-> txBz,
                    before |-> txSelector, stop |-> r.stop]
    /\ UNCHANGED <<mempool, block, inv, obs, proc>>

\* a caller of the TxSelector interface calls Clear
ClearCall ==
    /\ \A i \in Invs : inv[i].pc = "idle"
    /\ proc.pc = "idle"
    /\ call.n > 0
    /\ txSelector' = Clear(txSelector)
    /\ mem' = ClearMem(mem)
    /\ call' = NoCall
    /\ UNCHANGED <<mempool, block, inv, obs, proc>>

\* a caller of the TxSelector interface calls SelectedTxs and keeps the list
TakeSelectedTxs ==
    /\ \A i \in Invs : inv[i].pc = "idle"
    /\ proc.pc = "idle"
    /\ mem' = SelectedTxsMem(mem)
    /\ UNCHANGED <<mempool, block, txSelector, inv, obs, proc, call>>

\* the holder of a returned list replaces its element k by txBz
HolderSets(k, txBz) ==
    /\ mem.has
    /\ k \in 1 .. mem.heldLen
    /\ mem' = HeldSet(mem, k, txBz)
    /\ UNCHANGED <<mempool, block, txSelector, inv, obs, proc, call>>

\* the holder of a returned list appends txBz to it
HolderAppends(txBz) ==
    /\ mem.has
    /\ mem.heldLen < MaxTxs
    /\ \E inPlace \in BOOLEAN : mem' = HeldAppend(mem, txBz, inPlace)
    /\ UNCHANGED <<mempool, block, txSelector, inv, obs, proc, call>>

\* -------------------------------------------------------- specifications
\* the sequences over S of length at most n
SeqsUpTo(S, n) == UNION {[1 .. k -> S] : k \in 0 .. n}

Encoded(U) == {TxEncode(tx) : tx \in U}

\* The calls are serialized (one ABCI call at a time): invocation 1 only.
\* A build cycle on the mempool path, over candidates drawn from U; the
\* error of Remove is drawn only where Remove is called
MempoolNext(U) ==
    \E tx \in U, sigErr \in BOOLEAN :
        \E rmErr \in IF sigErr \/ tx.ok THEN {"nil"} ELSE RemoveResults :
            MempoolStep(1, tx, sigErr, rmErr)

\* build cycles of either path over candidates drawn from U
BuildNext(U) ==
    \/ Begin(1)
    \/ \E tx \in U : NoOpStep(1, TxEncode(tx))
    \/ MempoolNext(U)
    \/ Return(1)
    \/ DeferredClear(1)

\* each Response is offered to ProcessProposal
ReplayNext ==
    \/ ProcessReplay(1)
    \/ ProcessStep
    \/ ProcessFinish

\* Spec: build cycles over candidates of all sizes, with no gas limit, with
\* a zero and with the largest Block.MaxGas
InitSize == Init /\ ~block.nil /\ block.MaxGas \in {-1, 0, MaxInt}
Next == BuildNext(SizeTxs)
Spec == InitSize /\ [][Next]_vars

\* SpecGas: build cycles over candidates of every declared gas, under every
\* Block.MaxGas, each Response replayed to ProcessProposal
NextGas == BuildNext(GasTxs) \/ ReplayNext
SpecGas == Init /\ [][NextGas]_vars

\* SpecSeq: build cycles of a handler with a real mempool over candidates of
\* every signer and sequence, without Block parameters
InitSeq == Init /\ mempool = "real" /\ block.nil
NextSeq ==
    \/ Begin(1)
    \/ MempoolNext(SeqTxs)
    \/ Return(1)
    \/ DeferredClear(1)
SpecSeq == InitSeq /\ [][NextSeq]_vars

\* SpecProcess: ProcessProposal requests with any transactions of ProcTxs
ProcTxs ==
    {MkTx(1, g, <<>>, TRUE) : g \in {NoGas} \cup Gases}
    \cup {MkTx(1, g, <<>>, FALSE) : g \in {NoGas, GasMod - 1}}
NextProcess ==
    \/ \E txs \in SeqsUpTo(Encoded(ProcTxs), MaxProcTxs) : ProcessBegin(txs)
    \/ ProcessStep
    \/ ProcessFinish
SpecProcess == Init /\ [][NextProcess]_vars

\* SpecSelector: a selector called directly, with any byte length and any
\* memTx (nil, no GasTx, or a declared gas); the calls between two Clears
\* carry the same budgets, any maxTxBytes and any maxBlockGas
InitSelector == Init /\ mempool = "real" /\ block.nil
SelectorBytes == {TxEncode(MkTx(l, NoGas, <<>>, TRUE)) : l \in 0 .. MaxSize}
SelectorMemTxs ==
    {{}} \cup {{MkTx(1, g, <<>>, TRUE)} : g \in {NoGas, 0, 1, MaxInt, GasMod - 1}}
NextSelector ==
    \/ \E maxTxBytes \in IF call.n = 0 THEN 0 .. MaxBytes ELSE {call.maxTxBytes},
          maxBlockGas \in IF call.n = 0 THEN Gases ELSE {call.maxBlockGas},
          memTx \in SelectorMemTxs, txBz \in SelectorBytes :
            SelectCall(maxTxBytes, maxBlockGas, memTx, txBz)
    \/ ClearCall
SpecSelector == InitSelector /\ [][NextSelector]_vars

\* SpecCopy: a selector called directly under the largest byte budget and no
\* gas limit, whose caller keeps the list SelectedTxs returned, writes to it
\* and appends to it while the selector goes on
NextCopy ==
    \/ \E txBz \in SelectorBytes : SelectCall(MaxBytes, 0, {}, txBz)
    \/ ClearCall
    \/ TakeSelectedTxs
    \/ \E k \in 1 .. MaxTxs, txBz \in SelectorBytes : HolderSets(k, txBz)
    \/ \E txBz \in SelectorBytes : HolderAppends(txBz)
SpecCopy == InitSelector /\ [][NextCopy]_vars

\* SpecConc: two calls of the PrepareProposal handler of one
\* DefaultProposalHandler run at the same time, over candidates of two sizes
\* without Block parameters; each call is made once and the steps of the
\* two calls interleave
ConcTxs == {MkTx(l, NoGas, <<>>, TRUE) : l \in {1, MaxSize}}
FirstBegin(i) == inv[i].pc = "idle" /\ Begin(i)
NextConc ==
    \/ \E i \in Invs : FirstBegin(i)
    \/ \E i \in Invs, tx \in ConcTxs : NoOpStep(i, TxEncode(tx))
    \/ \E i \in Invs, tx \in ConcTxs : MempoolStep(i, tx, FALSE, "nil")
    \/ \E i \in Invs : Return(i)
    \/ \E i \in Invs : DeferredClear(i)
InitConc == Init /\ block.nil
SpecConc == InitConc /\ [][NextConc]_vars

\* SpecLive: build cycles of a handler with a real mempool, without Block
\* parameters, over candidates of signer A that the verifier accepts or
\* not; every call of the verifier and of the mempool returns, so a cycle
\* that can take a step takes one
LiveTxs == {MkTx(l, NoGas, <<Sig("A", q)>>, v) : l \in {1, MaxSize}, q \in {0, 1}, v \in BOOLEAN}
NextLive ==
    \/ Begin(1)
    \/ MempoolNext(LiveTxs)
    \/ Return(1)
    \/ DeferredClear(1)
SpecLive == InitSeq /\ [][NextLive]_vars /\ WF_vars(NextLive)

TypeOK ==
    /\ mempool \in MempoolKinds
    /\ block \in BlockParams
    /\ txSelector.totalTxGas \in Gases
    /\ \A i \in Invs :
        inv[i].pc \in {"idle", "loop", "noop", "return", "defer", "panic", "done", "panicked"}
    /\ proc.status \in {"NONE", "ACCEPT", "REJECT"}

\* ------------------------------------------------------------ properties
\* the sum of the byte lengths of txs
RECURSIVE SumLen(_)
SumLen(txs) == IF txs = <<>> THEN 0 ELSE Head(txs).len + SumLen(Tail(txs))

\* the mathematical sum of the gas the first k transactions of txs declare
RECURSIVE TrueGas(_, _)
TrueGas(txs, k) ==
    IF k = 0 THEN 0
    ELSE TrueGas(txs, k - 1) + (IF txs[k].body.gas = NoGas THEN 0 ELSE txs[k].body.gas)

\* the invocation is inside its loop or at its return statement: the
\* selector holds what the cycle has admitted
Building(i) == inv[i].pc \in {"loop", "noop", "return"}
\* the invocation has evaluated its Response
Responded(i) == inv[i].pc \in {"defer", "done"}

\* C1: in every build cycle, on the mempool path and on the no-op path, the
\* bytes admitted so far never exceed req.MaxTxBytes (so no candidate that
\* would exceed it was admitted), and the byte lengths of the Response sum
\* to at most req.MaxTxBytes.
C1_ByteBudget ==
    \A i \in Invs :
        /\ Building(i) => SumLen(txSelector.selectedTxs) <= inv[i].maxTxBytes
        /\ Building(i) => txSelector.totalTxBytes = SumLen(txSelector.selectedTxs)
        /\ Responded(i) => SumLen(inv[i].response) <= inv[i].maxTxBytes

\* a Response of two transactions that fills the budget, built by a cycle of
\* the mempool path that left out a candidate for its size
C1_Witness ==
    /\ mempool = "real"
    /\ inv[1].pc = "done"
    /\ Len(inv[1].response) = 2
    /\ SumLen(inv[1].response) = inv[1].maxTxBytes
    /\ obs[1].selectCalls = 3
    /\ ~obs[1].fitRejected

\* C2 (as claimed), on the mempool path, where the selector reads the
\* declared gas, and under a positive Block.MaxGas: the mathematical sum of
\* the gas the admitted transactions declare is at most maxBlockGas; and
\* with maxBlockGas = 0 no candidate that fits the byte budget is left out.
C2_GasBudget ==
    \A i \in Invs :
        /\ (mempool = "real" /\ Building(i) /\ ~block.nil /\ block.MaxGas > 0)
              => TrueGas(txSelector.selectedTxs, Len(txSelector.selectedTxs))
                     <= inv[i].maxBlockGas
        /\ ((Building(i) \/ Responded(i)) /\ inv[i].maxBlockGas = 0)
              => ~obs[i].fitRejected

\* the transactions of txs that signer s signed, as their sequences in order
RECURSIVE SeqsOf(_, _)
SeqsOf(txs, s) ==
    IF txs = <<>> THEN <<>>
    ELSE LET sg == Head(txs).body.sigs
             mine == {k \in 1 .. Len(sg) : sg[k].signer = s}
         IN (IF mine = {} THEN <<>> ELSE <<sg[CHOOSE k \in mine : TRUE].seq>>)
            \o SeqsOf(Tail(txs), s)

\* what invocation i has admitted so far, or its Response
Admitted(i) == IF Responded(i) THEN inv[i].response ELSE txSelector.selectedTxs

\* C3 (as claimed): on the mempool path, the sequences of the admitted
\* transactions of one signer increase by exactly 1 in admission order.
C3_SequenceLaw ==
    \A i \in Invs : (mempool = "real" /\ (Building(i) \/ Responded(i))) =>
        \A s \in Signers :
            LET q == SeqsOf(Admitted(i), s) IN
            \A k \in 1 .. (Len(q) - 1) : q[k + 1] = q[k] + 1

\* C3 (amended): on the mempool path, the sequences of the admitted
\* transactions of one signer are consecutive in uint64 arithmetic in
\* admission order: each is the one before plus 1 modulo 2^64, so that the
\* largest sequence is followed by 0.  A candidate whose sequence repeats or
\* skips ahead of the signer's last admitted one is not admitted, whatever
\* the seq-1 bookkeeping recorded.
C3_SequenceLawModulo ==
    \A i \in Invs : (mempool = "real" /\ (Building(i) \/ Responded(i))) =>
        \A s \in Signers :
            LET q == SeqsOf(Admitted(i), s) IN
            \A k \in 1 .. (Len(q) - 1) : q[k + 1] = (q[k] + 1) % SeqMod

\* signer A has two admitted transactions, and a candidate was skipped by the
\* sequence filter in between
C3_Witness ==
    /\ inv[1].pc = "done"
    /\ Len(SeqsOf(inv[1].response, "A")) = 2
    /\ obs[1].selIdx = <<1, 3>>
    /\ obs[1].filterCalls = 3
    /\ obs[1].verifyCalls = 2

\* C4: a Response built by PrepareProposalHandler and offered to
\* ProcessProposalHandler of the same handler (same mempool kind, same
\* Block.MaxGas, same verifier) is accepted.
C4_Symmetry == (proc.replay /\ proc.pc = "done") => proc.status = "ACCEPT"

\* a Response of two transactions with declared gas, built from a real
\* mempool under a positive Block.MaxGas, went through the verifier and the
\* gas check of ProcessProposal
C4_Witness ==
    /\ mempool = "real"
    /\ ~block.nil /\ block.MaxGas > 0
    /\ proc.replay /\ proc.pc = "done" /\ proc.status = "ACCEPT"
    /\ Len(proc.txs) = 2
    /\ proc.verifyCalls = 2
    /\ proc.totalTxGas > 0
    /\ obs[1].fitRejected

StrictlyIncreasing(q) == \A k \in 1 .. (Len(q) - 1) : q[k] < q[k + 1]

\* C5 (as claimed): on the no-op path the Response is req.Txs[0..k): the
\* admitted candidates are the first k of the request.
C5_Prefix ==
    \A i \in Invs : (IsNoOp /\ Responded(i)) =>
        \A k \in 1 .. Len(obs[i].selIdx) : obs[i].selIdx[k] = k

\* C5 (amended): on the no-op path the Response is a subsequence of req.Txs
\* in original order, chosen greedily under the byte budget: of the
\* candidates scanned before the selector says stop, each one that fits the
\* bytes still free is admitted (also after an earlier candidate was left
\* out), and no gas is accounted.
C5_NoOpGreedy ==
    \A i \in Invs : (IsNoOp /\ (Building(i) \/ Responded(i))) =>
        /\ StrictlyIncreasing(obs[i].selIdx)
        /\ Len(obs[i].selIdx) = Len(obs[i].admitted)
        /\ ~obs[i].fitRejected
        /\ Building(i) => (txSelector.totalTxGas = 0 /\ txSelector.selectedTxs = obs[i].admitted)
        /\ Responded(i) => inv[i].response = obs[i].admitted

\* on the no-op path, under a positive Block.MaxGas: the first and the third
\* candidate are in the Response, the second was too large, and the declared
\* gas of the Response exceeds Block.MaxGas
C5_Witness ==
    /\ IsNoOp
    /\ inv[1].pc = "done"
    /\ obs[1].selIdx = <<1, 3>>
    /\ ~block.nil /\ block.MaxGas > 0
    /\ TrueGas(inv[1].response, 2) > block.MaxGas

\* some transaction of txs fails ProcessProposalVerifyTx
SomeFailsVerify(txs) == \E k \in 1 .. Len(txs) : ProcessProposalVerifyTx(txs[k]).err

\* C6: with a real mempool, ProcessProposalHandler answers REJECT whenever a
\* transaction of req.Txs, at any index, fails ProcessProposalVerifyTx.
C6_RejectOnVerifyFailure ==
    (mempool = "real" /\ proc.pc = "done" /\ SomeFailsVerify(proc.txs))
        => proc.status = "REJECT"

\* a request whose first transaction verifies and whose second does not was
\* rejected at the second
C6_Witness ==
    /\ mempool = "real"
    /\ proc.pc = "done" /\ proc.status = "REJECT"
    /\ Len(proc.txs) = 2
    /\ ~ProcessProposalVerifyTx(proc.txs[1]).err
    /\ ProcessProposalVerifyTx(proc.txs[2]).err
    /\ proc.verifyCalls = 2

\* C7 (as claimed): with a real mempool, a request is rejected if under a
\* positive Block.MaxGas the declared gas of some prefix of req.Txs sums to
\* more than MaxGas, and accepted if every transaction verifies and no prefix
\* does (or MaxGas <= 0).
C7_GasReject ==
    (mempool = "real" /\ proc.pc = "done") =>
        /\ (ProcessMaxBlockGas > 0
            /\ \E k \in 1 .. Len(proc.txs) : TrueGas(proc.txs, k) > ProcessMaxBlockGas)
              => proc.status = "REJECT"
        /\ (/\ ~SomeFailsVerify(proc.txs)
            /\ \/ ProcessMaxBlockGas <= 0
               \/ \A k \in 1 .. Len(proc.txs) : TrueGas(proc.txs, k) <= ProcessMaxBlockGas)
              => proc.status = "ACCEPT"

\* C8: with a nil or no-op mempool, ProcessProposalHandler calls no verifier,
\* checks no gas and answers ACCEPT to every request.
C8_NoOpAccepts ==
    IsNoOp =>
        /\ proc.pc # "loop"
        /\ proc.verifyCalls = 0
        /\ proc.totalTxGas = 0
        /\ proc.pc = "done" => proc.status = "ACCEPT"

\* a handler with a NoOpMempool accepted a request holding a transaction the
\* verifier rejects and more declared gas than Block.MaxGas
C8_Witness ==
    /\ mempool = "noop"
    /\ proc.pc = "done" /\ proc.status = "ACCEPT"
    /\ SomeFailsVerify(proc.txs)
    /\ ~block.nil /\ block.MaxGas > 0
    /\ TrueGas(proc.txs, Len(proc.txs)) > block.MaxGas

\* C9: build cycles run one after another: whichever way the cycle before
\* ended (return or panic), a cycle starts with a zeroed selector, the
\* selector and the Response hold what this cycle admitted and nothing else,
\* and the selector is zeroed again once the call has ended.
C9_SelectorReset ==
    \A i \in Invs :
        /\ inv[i].pc # "idle" => obs[i].startedWith = NewDefaultTxSelector
        /\ Building(i) => txSelector.selectedTxs = obs[i].admitted
        /\ Responded(i) => inv[i].response = obs[i].admitted
        /\ inv[i].pc \in {"done", "panicked"} => txSelector = NewDefaultTxSelector

\* a cycle that followed a panicked one, admitted two transactions and
\* panicked itself after that, with the selector cleared
C9_Witness ==
    /\ obs[1].after = "panicked"
    /\ inv[1].pc = "panicked"
    /\ Len(obs[1].admitted) = 2
    /\ txSelector = NewDefaultTxSelector

\* C10: once SelectTxForProposal has returned true, the cycle examines no
\* further candidate (no call of the sequence filter, the verifier, Remove or
\* the selector follows) and returns the selector's content of that moment.
C10_MonotonicHalt ==
    [][\A i \in Invs :
          (obs[i].halted /\ inv[i].pc \notin {"done", "panicked"}) =>
              /\ obs'[i] = obs[i]
              /\ inv'[i].pc \in {"defer", "done"}
              /\ inv'[i].response = obs[i].atHalt]_vars

\* a cycle of the mempool path halted at its second candidate, with one more
\* candidate allowed, and returned the two transactions admitted until then
C10_Witness ==
    /\ mempool = "real"
    /\ inv[1].pc = "done"
    /\ obs[1].halted
    /\ inv[1].idx = 1
    /\ Len(inv[1].response) = 2
    /\ inv[1].response = obs[1].atHalt

\* the direct call has appended its candidate
CallAdmitted == Len(txSelector.selectedTxs) > Len(call.before.selectedTxs)

\* C11 (as claimed, its admission rule): SelectTxForProposal admits the
\* candidate exactly when runningBytes + size <= maxBytes and (maxGas = 0 or
\* runningGas + candidateGas <= maxGas), the sums being those of the
\* numbers; on admission the byte total grows by size and the bytes are
\* appended last; otherwise the selector is unchanged.
C11_AdmitIff ==
    call.n > 0 =>
        LET b == call.before
            size == call.txBz.len
            gas == TxGasLimit(call.memTx)
        IN
        /\ CallAdmitted <=>
              /\ b.totalTxBytes + size <= call.maxTxBytes
              /\ call.maxBlockGas = 0 \/ b.totalTxGas + gas <= call.maxBlockGas
        /\ CallAdmitted =>
              /\ txSelector.totalTxBytes = b.totalTxBytes + size
              /\ txSelector.selectedTxs = Append(b.selectedTxs, call.txBz)
        /\ ~CallAdmitted => txSelector = b

\* C12: SelectTxForProposal returns true exactly when, after its decision,
\* totalTxBytes >= maxTxBytes or (maxBlockGas > 0 and totalTxGas >=
\* maxBlockGas), whether or not the candidate was admitted.
C12_HaltExactly ==
    call.n > 0 =>
        (call.stop <=>
            \/ txSelector.totalTxBytes >= call.maxTxBytes
            \/ (call.maxBlockGas > 0 /\ txSelector.totalTxGas >= call.maxBlockGas))

\* a call that did not admit its candidate returned true for the gas total
\* alone, with bytes still free
C12_Witness ==
    /\ call.n > 1
    /\ call.stop
    /\ ~CallAdmitted
    /\ txSelector.totalTxBytes < call.maxTxBytes
    /\ call.maxBlockGas > 0

\* C13 (as claimed): under req.MaxTxBytes = 0 the first selector call of a
\* build cycle says stop, nothing is admitted and the Response is empty.
C13_ZeroBudget ==
    \A i \in Invs :
        (inv[i].maxTxBytes = 0 /\ (Building(i) \/ Responded(i))) =>
            /\ obs[i].selectCalls > 0 => (obs[i].halted /\ obs[i].selectCalls = 1)
            /\ Building(i) => txSelector.selectedTxs = <<>>
            /\ Responded(i) => inv[i].response = <<>>

\* C20 (as claimed): after a call that returned true, no call with the same
\* maxTxBytes and maxBlockGas admits its candidate.
C20_HaltIsFinal ==
    [][(/\ call.n > 0
        /\ call.stop
        /\ call'.n = call.n + 1
        /\ call'.maxTxBytes = call.maxTxBytes
        /\ call'.maxBlockGas = call.maxBlockGas)
          => txSelector'.selectedTxs = txSelector.selectedTxs]_vars

\* C14: SelectedTxs returns a copy.  The list a caller holds reads as the
\* caller knows it (as returned, then as the caller itself changed it),
\* whatever SelectTxForProposal and Clear did since; and the selector's list
\* reads as the transactions it admitted, whatever the caller wrote or
\* appended to the list it holds.
C14_DefensiveCopy ==
    /\ mem.has => ViewHeld(mem) = mem.heldVal
    /\ ViewTs(mem) = txSelector.selectedTxs

\* a caller holds a list of two different transactions which differs at both
\* positions from the two transactions the selector has admitted: the two
\* lists were changed apart after SelectedTxs returned
C14_Witness ==
    /\ mem.has
    /\ call.n = 2
    /\ Len(mem.heldVal) = 2
    /\ Len(txSelector.selectedTxs) = 2
    /\ mem.heldVal[1] # txSelector.selectedTxs[1]
    /\ mem.heldVal[2] # txSelector.selectedTxs[2]
    /\ mem.heldVal[1] # mem.heldVal[2]

\* C15 (as claimed): a verification failure is never fatal to the build:
\* whatever Remove returns, the cycle goes on to the next candidate or to its
\* return statement.
C15_NeverFatal ==
    [][\A i \in Invs :
          obs'[i].removeCalls = obs[i].removeCalls + 1
              => inv'[i].pc \in {"loop", "return"}]_vars

\* C15 (amended): Remove is called in exactly the iterations whose candidate
\* fails PrepareProposalVerifyTx (never for a candidate the sequence filter
\* skipped or the selector was asked about); the failing transaction is not
\* admitted; if Remove returns nil or ErrTxNotFound the cycle goes on with
\* the next candidate, or returns a Response if there is none; if Remove
\* returns any other error the handler panics and gives no Response.
C15_FatalOnlyOnRemoveError ==
    [][\A i \in Invs :
          /\ obs'[i].removeCalls = obs[i].removeCalls + 1 =>
                /\ obs'[i].filterCalls = obs[i].filterCalls + 1
                /\ obs'[i].verifyCalls = obs[i].verifyCalls + 1
                /\ obs'[i].selectCalls = obs[i].selectCalls
                /\ txSelector' = txSelector
                /\ IF obs'[i].removeErr
                   THEN inv'[i].pc = "panic"
                   ELSE /\ inv'[i].pc \in {"loop", "return"}
                        /\ inv'[i].idx = inv[i].idx + 1
          /\ (/\ obs'[i].verifyCalls = obs[i].verifyCalls + 1
              /\ obs'[i].selectCalls = obs[i].selectCalls)
                => obs'[i].removeCalls = obs[i].removeCalls + 1
          /\ (/\ obs'[i].filterCalls = obs[i].filterCalls + 1
              /\ obs'[i].verifyCalls = obs[i].verifyCalls)
                => obs'[i].removeCalls = obs[i].removeCalls
          /\ obs'[i].selectCalls = obs[i].selectCalls + 1
                => obs'[i].removeCalls = obs[i].removeCalls
          /\ inv[i].pc = "panic" => (inv'[i].pc = "panicked" /\ inv'[i].response = <<>>)]_vars

\* a cycle whose first candidate failed verification and was removed, whose
\* second was admitted and whose third was skipped by the sequence filter
\* has returned its Response
C15_Witness ==
    /\ inv[1].pc = "done"
    /\ obs[1].removeCalls = 1
    /\ ~obs[1].removeErr
    /\ obs[1].selIdx = <<2>>
    /\ obs[1].filterCalls = 3
    /\ obs[1].verifyCalls = 2
    /\ Len(inv[1].response) = 1

\* C16 (as claimed): when two PrepareProposal calls of one handler
\* interleave, the Response of each holds the transactions its own cycle
\* admitted and nothing else, within its own byte budget.
C16_Isolation ==
    \A i \in Invs :
        Responded(i) =>
            /\ inv[i].response = obs[i].admitted
            /\ SumLen(inv[i].response) <= inv[i].maxTxBytes

\* the sequence of the last transaction of signer s in txs, NoSeq if none
LastSeqOf(txs, s) ==
    LET q == SeqsOf(txs, s) IN IF q = <<>> THEN NoSeq ELSE q[Len(q)]

\* C17 (as claimed): whenever the loop is about to examine a candidate, each
\* entry of selectedTxsSignersSeqs is the sequence of the last admitted
\* transaction of that signer, and a signer with no admitted transaction
\* has no entry.
C17_OnlyAdmitted ==
    \A i \in Invs : (mempool = "real" /\ inv[i].pc = "loop") =>
        \A s \in Signers :
            inv[i].selectedTxsSignersSeqs[s] = LastSeqOf(txSelector.selectedTxs, s)

\* C17 (amended): whenever the loop is about to examine a candidate, the
\* entry of a signer with an admitted transaction is the sequence of its
\* last admitted transaction; the entry of a signer with none is the
\* sequence minus 1 (uint64) of the first verified transaction of that
\* signer the selector did not admit, and is absent only if there is no
\* such transaction either.
C17_AdmittedOrRejectedMinusOne ==
    \A i \in Invs : (mempool = "real" /\ inv[i].pc = "loop") =>
        \A s \in Signers :
            inv[i].selectedTxsSignersSeqs[s] =
                IF LastSeqOf(txSelector.selectedTxs, s) # NoSeq
                THEN LastSeqOf(txSelector.selectedTxs, s)
                ELSE IF obs[i].rejected[s] # NoSeq
                THEN (obs[i].rejected[s] - 1) % SeqMod
                ELSE NoSeq

\* nothing is admitted yet, the first candidate was verified and left out by
\* the selector, and the second was skipped by the sequence filter
C17_Witness ==
    /\ inv[1].pc = "loop"
    /\ txSelector.selectedTxs = <<>>
    /\ obs[1].filterCalls = 2
    /\ obs[1].verifyCalls = 1
    /\ obs[1].selectCalls = 1
    /\ obs[1].rejected["A"] # NoSeq
    /\ inv[1].selectedTxsSignersSeqs["A"] = (obs[1].rejected["A"] - 1) % SeqMod

\* C18: on the mempool path every element of the Response was appended by a
\* selector call that followed, in the same iteration, a sequence filter
\* that passed and a PrepareProposalVerifyTx that succeeded, and is the
\* bytes that call returned; one iteration appends at most one element, at
\* the end of the list; the elements are in the order the iterator yielded
\* their candidates.
C18_VerifiedInOrder ==
    /\ [](\A i \in Invs : (mempool = "real" /\ (Building(i) \/ Responded(i))) =>
            /\ Admitted(i) = obs[i].admitted
            /\ Len(obs[i].selIdx) = Len(obs[i].admitted)
            /\ StrictlyIncreasing(obs[i].selIdx)
            /\ \A k \in 1 .. Len(obs[i].selIdx) : obs[i].selIdx[k] \in 1 .. (inv[i].idx + 1)
            /\ \A k \in 1 .. Len(obs[i].admitted) :
                  PrepareProposalVerifyTx(TxDecode(obs[i].admitted[k]))
                      = [err |-> FALSE, txBz |-> <<obs[i].admitted[k]>>]
            /\ Len(obs[i].admitted) <= obs[i].selectCalls
            /\ obs[i].selectCalls + obs[i].removeCalls = obs[i].verifyCalls
            /\ obs[i].verifyCalls <= obs[i].filterCalls)
    /\ [][\A i \in Invs : (mempool = "real" /\ inv[i].pc = "loop") =>
            /\ Len(txSelector'.selectedTxs) <= Len(txSelector.selectedTxs) + 1
            /\ SubSeq(txSelector'.selectedTxs, 1, Len(txSelector.selectedTxs))
                  = txSelector.selectedTxs
            /\ Len(txSelector'.selectedTxs) > Len(txSelector.selectedTxs) =>
                  /\ obs'[i].filterCalls = obs[i].filterCalls + 1
                  /\ obs'[i].verifyCalls = obs[i].verifyCalls + 1
                  /\ obs'[i].removeCalls = obs[i].removeCalls
                  /\ obs'[i].selectCalls = obs[i].selectCalls + 1]_vars

\* a Response of the first and the third candidate, the second having
\* failed verification
C18_Witness ==
    /\ mempool = "real"
    /\ inv[1].pc = "done"
    /\ obs[1].selIdx = <<1, 3>>
    /\ Len(inv[1].response) = 2
    /\ obs[1].verifyCalls = 3
    /\ obs[1].removeCalls = 1

\* C19: a build cycle over a finite iterator terminates.  A cycle inside its
\* loop reaches the end of the call (a Response, or a panic); every
\* iteration that does not leave the loop by break or panic (a sequence
\* filter skip, a verification failure, a selector call that does not halt)
\* examines one candidate and moves the iterator by exactly one, so that no
\* candidate is examined twice; and the cycle comes to its return statement
\* when the selector has said stop or the iterator is exhausted.
C19_Terminates ==
    /\ (inv[1].pc = "loop") ~> (inv[1].pc \in {"done", "panicked"})
    /\ (inv[1].pc = "return") ~> (inv[1].pc = "done")
    /\ [][inv[1].pc = "loop" =>
            /\ obs'[1].filterCalls \in {obs[1].filterCalls, obs[1].filterCalls + 1}
            /\ obs'[1].filterCalls = obs[1].filterCalls => inv'[1].pc = "panic"
            /\ inv'[1].pc = "loop" =>
                  (inv'[1].idx = inv[1].idx + 1 /\ ~obs'[1].halted)
            /\ inv'[1].pc = "return" =>
                  IF obs'[1].halted THEN inv'[1].idx = inv[1].idx
                  ELSE inv'[1].idx = inv[1].idx + 1
            /\ inv'[1].idx <= MaxTxs]_vars
    /\ [](inv[1].pc \in {"loop", "return", "defer", "done"} =>
            obs[1].filterCalls = inv[1].idx + (IF obs[1].halted THEN 1 ELSE 0))

\* a cycle that skipped a candidate for its sequence, removed one that failed
\* verification and admitted one without a halt has ended with its Response
\* after three iterations, the iterator exhausted
C19_Witness ==
    /\ inv[1].pc = "done"
    /\ ~obs[1].halted
    /\ inv[1].idx = 3
    /\ obs[1].filterCalls = 3
    /\ obs[1].verifyCalls = 2
    /\ obs[1].removeCalls = 1
    /\ Len(inv[1].response) = 1

====
